---- MODULE Spec2Model ----
(***************************************************************************)
(* Model of the rental-listing search core: rule-based intent extraction   *)
(* (search_utils.extract_intent), the composite scorer                     *)
(* (search_utils.final_score), the orchestrator                            *)
(* (search_utils.search_listings) and the dashboard's search handler       *)
(* (streamlit_app).                                                        *)
(*                                                                         *)
(* Text is a sequence of one-character strings, so that substring tests,   *)
(* lower-casing and the two regular expressions are computed character by  *)
(* character.  Numbers that Python holds as floats are exact fractions     *)
(* [n |-> numerator, d |-> denominator].                                   *)
(***************************************************************************)
EXTENDS Integers, Sequences, FiniteSets, TLC

VARIABLES
  all_listings,   \* the listing table the dashboard loaded (streamlit_app.py:31)
  user_query,     \* the text last submitted
  max_results,    \* the sidebar slider (streamlit_app.py:51)
  intent,         \* the dict last returned by extract_intent
  scored,         \* search_listings' private df after line 162 (filtered, scored)
  results,        \* the frame search_listings returned
  top_results,    \* the dashboard's truncated, ranked frame
  outcome,        \* how the last call ended
  score_call      \* arguments and result of the last direct final_score call

vars == << all_listings, user_query, max_results, intent, scored, results,
           top_results, outcome, score_call >>

----------------------------------------------------------------------------
(* Characters and text                                                     *)

UpperChars ==
  << "A","B","C","D","E","F","G","H","I","J","K","L","M",
     "N","O","P","Q","R","S","T","U","V","W","X","Y","Z" >>

LowerChars ==
  << "a","b","c","d","e","f","g","h","i","j","k","l","m",
     "n","o","p","q","r","s","t","u","v","w","x","y","z" >>

DigitChars == << "0","1","2","3","4","5","6","7","8","9" >>

Range(f) == { f[i] : i \in DOMAIN f }

UpperSet == Range(UpperChars)
AlphaSet == Range(UpperChars) \cup Range(LowerChars)
DigitSet == Range(DigitChars)
SpaceSet == {" ", "\t", "\n", "\r", "\f"}

IsUpper(c) == c \in UpperSet
IsAlpha(c) == c \in AlphaSet
IsDigit(c) == c \in DigitSet
IsSpace(c) == c \in SpaceSet
IsWordChar(c) == IsAlpha(c) \/ IsDigit(c) \/ c = "_"

\* str.lower() on one character
LowerChar(c) ==
  IF IsUpper(c) THEN LowerChars[CHOOSE i \in DOMAIN UpperChars : UpperChars[i] = c]
  ELSE IF c = "Â" THEN "â"
  ELSE c

\* str.lower()
Lower(s) == [ i \in DOMAIN s |-> LowerChar(s[i]) ]

\* needle in hay
Contains(hay, needle) ==
  \E i \in 1..(Len(hay) - Len(needle) + 1) :
     SubSeq(hay, i, i + Len(needle) - 1) = needle

\* str.strip(chars): drop leading and trailing characters that satisfy Drop
StripBy(s, Drop(_)) ==
  LET keep == { i \in DOMAIN s : ~Drop(s[i]) }
  IN  IF keep = {} THEN << >>
      ELSE SubSeq(s, CHOOSE i \in keep : \A j \in keep : i <= j,
                     CHOOSE i \in keep : \A j \in keep : j <= i)

Strip(s) == StripBy(s, IsSpace)

IsDoubleQuote(c) == c = "\""
IsSingleQuote(c) == c = "'"

Min(S) == CHOOSE x \in S : \A y \in S : x <= y
Max(S) == CHOOSE x \in S : \A y \in S : y <= x

----------------------------------------------------------------------------
(* Numbers: exact fractions in lowest terms                                 *)

Abs(k) == IF k < 0 THEN -k ELSE k

RECURSIVE GCD(_, _)
GCD(a, b) == IF b = 0 THEN a ELSE GCD(b, a % b)

\* n / d in lowest terms, for d >= 0
Frac(n, d) ==
  LET g == GCD(Abs(n), d)
  IN  IF g = 0 THEN [n |-> 0, d |-> 0] ELSE [n |-> n \div g, d |-> d \div g]
FInt(k) == Frac(k, 1)
FAdd(a, b) == Frac(a.n * b.d + b.n * a.d, a.d * b.d)
FSub(a, b) == Frac(a.n * b.d - b.n * a.d, a.d * b.d)
FLe(a, b) == a.n * b.d <= b.n * a.d
FLt(a, b) == a.n * b.d < b.n * a.d
FEq(a, b) == a.n * b.d = b.n * a.d
\* a / b with the denominator kept non-negative; b = 0 gives denominator 0,
\* an infinity of the sign of a (the quotient of numpy floats)
FDiv(a, b) ==
  IF b.n >= 0 THEN Frac(a.n * b.d, a.d * b.n) ELSE Frac(-(a.n * b.d), -(a.d * b.n))

\* None and a present value, for the two optional fields of the intent
NoLocation == [none |-> TRUE, val |-> << >>]
NoPrice == [none |-> TRUE, val |-> FInt(0)]
Some(x) == [none |-> FALSE, val |-> x]

----------------------------------------------------------------------------
(* Amenity vocabulary                                                      *)

key_amenities ==
  << <<"h","o","t"," ","t","u","b">>,
     <<"w","i","f","i">>,
     <<"k","i","t","c","h","e","n">>,
     <<"w","i","n","e"," ","g","l","a","s","s","e","s">>,
     <<"a","i","r"," ","c","o","n","d","i","t","i","o","n","i","n","g">>,
     <<"c","e","n","t","r","a","l"," ","h","e","a","t","i","n","g">>,
     <<"m","i","c","r","o","w","a","v","e">>,
     <<"p","a","i","d"," ","s","t","r","e","e","t"," ","p","a","r","k","i","n","g"," ","o","f","f"," ","p","r","e","m","i","s","e","s">>,
     <<"w","a","s","h","e","r">>,
     <<"d","r","y","e","r">>,
     <<"p","e","t","s"," ","a","l","l","o","w","e","d">>,
     <<"s","m","o","k","e"," ","a","l","a","r","m">>,
     <<"p","r","i","v","a","t","e"," ","e","n","t","r","a","n","c","e">>,
     <<"b","a","t","h","t","u","b">>,
     <<"f","i","r","s","t"," ","a","i","d"," ","k","i","t">>,
     <<"a","c","c","e","s","s","i","b","l","e">>,
     <<"p","r","i","v","a","t","e"," ","p","a","t","i","o"," ","o","r"," ","b","a","l","c","o","n","y">> >>

AMENITY_SYNONYMS ==
  (<<"h","o","t"," ","t","u","b">> :> << <<"j","a","c","u","z","z","i">>, <<"s","p","a">>, <<"h","o","t","-","t","u","b">> >>)
  @@ (<<"w","i","f","i">> :> << <<"i","n","t","e","r","n","e","t">>, <<"w","i","r","e","l","e","s","s">> >>)
  @@ (<<"a","i","r"," ","c","o","n","d","i","t","i","o","n","i","n","g">> :> << <<"a","c">>, <<"a","i","r","c","o","n">> >>)
  @@ (<<"p","r","i","v","a","t","e"," ","p","a","t","i","o"," ","o","r"," ","b","a","l","c","o","n","y">> :> << <<"b","a","l","c","o","n","y">>, <<"t","e","r","r","a","c","e">> >>)
  @@ (<<"p","e","t","s"," ","a","l","l","o","w","e","d">> :> << <<"p","e","t"," ","f","r","i","e","n","d","l","y">>, <<"d","o","g"," ","f","r","i","e","n","d","l","y">> >>)
  @@ (<<"a","c","c","e","s","s","i","b","l","e">> :> << <<"w","h","e","e","l","c","h","a","i","r">>, <<"s","t","e","p","-","f","r","e","e">> >>)

\* AMENITY_SYNONYMS.get(a, [])
SynonymsOf(a) == IF a \in DOMAIN AMENITY_SYNONYMS THEN AMENITY_SYNONYMS[a] ELSE << >>

----------------------------------------------------------------------------
(* extract_intent: location                                                *)
(*   \b(?:in|at)\s+([A-Za-z\s]+?)(?:\s|$|,)   with re.IGNORECASE           *)

\* \b between s[i-1] and s[i]
WordBoundary(s, i) ==
  ((i > 1) /\ IsWordChar(s[i-1])) # ((i <= Len(s)) /\ IsWordChar(s[i]))

\* (?:in|at) at position i
LocKeywordAt(s, i) ==
  /\ i + 1 <= Len(s)
  /\ Lower(SubSeq(s, i, i + 1)) \in { <<"i","n">>, <<"a","t">> }

\* (?:\s|$|,) at position p
LocTerminatorAt(s, p) == p > Len(s) \/ IsSpace(s[p]) \/ s[p] = ","

\* the ends e of a capture s[g..e] of one or more [A-Za-z\s] that a
\* terminator follows; the lazy quantifier takes the least
LocCaptureEnds(s, g) ==
  { e \in g..Len(s) :
      /\ \A j \in g..e : IsAlpha(s[j]) \/ IsSpace(s[j])
      /\ LocTerminatorAt(s, e + 1) }

\* length of the run of whitespace that starts at p
SpaceRun(s, p) ==
  Max({ k \in 0..(Len(s) - p + 1) : \A j \in p..(p + k - 1) : IsSpace(s[j]) })

\* the numbers of whitespace characters \s+ can take at p so that the rest
\* of the pattern matches; the greedy quantifier takes the greatest
LocSpaceTakes(s, p) ==
  { k \in 1..SpaceRun(s, p) : LocCaptureEnds(s, p + k) # {} }

\* the pattern matches starting at position i
LocMatchesAt(s, i) ==
  /\ WordBoundary(s, i)
  /\ LocKeywordAt(s, i)
  /\ LocSpaceTakes(s, i + 2) # {}

\* group(1) of the match that starts at i
LocGroupAtGreedy(s, i) ==
  LET g == i + 2 + Max(LocSpaceTakes(s, i + 2))
  IN  SubSeq(s, g, Max(LocCaptureEnds(s, g)))
LocGroupAt(s, i) ==
  LET g == i + 2 + Max(LocSpaceTakes(s, i + 2))
  IN  SubSeq(s, g, Min(LocCaptureEnds(s, g)))

\* re.search: the leftmost match; intent["location"] = group(1).strip()
ExtractLocation(s) ==
  LET starts == { i \in 1..Len(s) : LocMatchesAt(s, i) }
  IN  IF starts = {} THEN NoLocation
      ELSE Some(Strip(LocGroupAt(s, Min(starts))))

----------------------------------------------------------------------------
(* extract_intent: max price                                               *)
(*   (?:under|below|max)\s*[Â£$]?(\d+(?:,\d{3})*(?:\.\d+)?)  IGNORECASE    *)

PriceKeywords ==
  { <<"u","n","d","e","r">>, <<"b","e","l","o","w">>, <<"m","a","x">> }

\* the character class [Â£$] under IGNORECASE
IsCurrency(c) == c \in {"Â", "â", "£", "$"}

\* the keywords that match at position i (at most one)
PriceKeywordsAt(s, i) ==
  { k \in PriceKeywords :
      i + Len(k) - 1 <= Len(s) /\ Lower(SubSeq(s, i, i + Len(k) - 1)) = k }

\* length of the run of digits that starts at p
DigitRun(s, p) ==
  Max({ k \in 0..(Len(s) - p + 1) : \A j \in p..(p + k - 1) : IsDigit(s[j]) })

\* (?:,\d{3})* from position p: the position after the last group taken
RECURSIVE ThousandsEnd(_, _)
ThousandsEnd(s, p) ==
  IF p + 3 <= Len(s) /\ s[p] = "," /\ DigitRun(s, p + 1) >= 3
  THEN ThousandsEnd(s, p + 4)
  ELSE p

\* (?:\.\d+)? from position p: the position after it
DecimalEnd(s, p) ==
  IF p <= Len(s) /\ s[p] = "." /\ DigitRun(s, p + 1) >= 1
  THEN p + 1 + DigitRun(s, p + 1)
  ELSE p

\* where group(1) starts for a match at i: after keyword, \s*, [Â£$]?
PriceGroupStart(s, i) ==
  LET k == CHOOSE k \in PriceKeywordsAt(s, i) : TRUE
      p == i + Len(k)
      q == p + SpaceRun(s, p)
  IN  IF q <= Len(s) /\ IsCurrency(s[q]) THEN q + 1 ELSE q

PriceMatchesAt(s, i) ==
  /\ PriceKeywordsAt(s, i) # {}
  /\ DigitRun(s, PriceGroupStart(s, i)) >= 1

\* group(1) of the match that starts at i
PriceGroupAt(s, i) ==
  LET g == PriceGroupStart(s, i)
      e == DecimalEnd(s, ThousandsEnd(s, g + DigitRun(s, g)))
  IN  SubSeq(s, g, e - 1)

DigitVal(c) == CHOOSE k \in 0..9 : DigitChars[k + 1] = c

RECURSIVE DigitsVal(_)
DigitsVal(ds) ==
  IF ds = << >> THEN 0
  ELSE 10 * DigitsVal(SubSeq(ds, 1, Len(ds) - 1)) + DigitVal(ds[Len(ds)])

RECURSIVE Pow10(_)
Pow10(k) == IF k = 0 THEN 1 ELSE 10 * Pow10(k - 1)

\* float(text.replace(",", ""))
ParseFloat(text) ==
  LET t == SelectSeq(text, LAMBDA c : c # ",")
      dots == { i \in DOMAIN t : t[i] = "." }
  IN  IF dots = {} THEN FInt(DigitsVal(t))
      ELSE LET dot == Min(dots)
               fr == SubSeq(t, dot + 1, Len(t))
           IN  Frac(DigitsVal(SubSeq(t, 1, dot - 1) \o fr), Pow10(Len(fr)))

ExtractMaxPrice(s) ==
  LET starts == { i \in 1..Len(s) : PriceMatchesAt(s, i) }
  IN  IF starts = {} THEN NoPrice
      ELSE Some(ParseFloat(PriceGroupAt(s, Min(starts))))

----------------------------------------------------------------------------
(* extract_intent: amenities                                               *)

\* the inner loop over the synonyms of a, from the j-th on
SynonymLoopFirstOnly(s, a, j, found) ==
  IF j > Len(SynonymsOf(a)) THEN found
  ELSE IF Contains(Lower(s), Lower(SynonymsOf(a)[j])) THEN found \cup {a} ELSE found
RECURSIVE SynonymLoop(_, _, _, _)
SynonymLoop(s, a, j, found) ==
  IF j > Len(SynonymsOf(a)) THEN found
  ELSE SynonymLoop(s, a, j + 1,
         IF Contains(Lower(s), Lower(SynonymsOf(a)[j])) THEN found \cup {a} ELSE found)

\* the loop over key_amenities, from the k-th on
RECURSIVE AmenityLoop(_, _, _)
AmenityLoop(s, k, found) ==
  IF k > Len(key_amenities) THEN found
  ELSE LET a == key_amenities[k]
           f1 == IF Contains(Lower(s), Lower(a)) THEN found \cup {a} ELSE found
       IN  AmenityLoop(s, k + 1, SynonymLoop(s, a, 1, f1))

ExtractAmenities(s) == AmenityLoop(s, 1, {})

extract_intent(user_input) ==
  [ location  |-> ExtractLocation(user_input),
    max_price |-> ExtractMaxPrice(user_input),
    amenities |-> ExtractAmenities(user_input) ]

----------------------------------------------------------------------------
(* Listing tables.  A frame is [score_col, rows]: whether it has a 'score' *)
(* column, and its rows in order; a row keeps its index label idx.         *)

Frame(score_col, rows) == [score_col |-> score_col, rows |-> rows]
NoFrame == Frame(FALSE, << >>)

\* A variable of Python refers to an object: obj says whether the frame it
\* names is the caller's table or one private to the call.
Ref(obj, frame) == [obj |-> obj, frame |-> frame]

\* df.copy(): a new object with the same contents
CopyAliased(ref) == ref
Copy(ref) == Ref("private", ref.frame)

\* df[mask]: a new object holding the rows that satisfy Keep
Where(ref, Keep(_)) ==
  Ref("private", [ref.frame EXCEPT !.rows = SelectSeq(ref.frame.rows, Keep)])

\* df['score'] = values: the object ref names gains or overwrites the column
WithScores(frame, values) ==
  Frame(TRUE, [ i \in DOMAIN frame.rows |-> ("score" :> values[i]) @@ frame.rows[i] ])

\* df.head(n)
HeadRows(frame, n) ==
  [frame EXCEPT !.rows = SubSeq(frame.rows, 1, IF n < Len(frame.rows) THEN n ELSE Len(frame.rows))]

----------------------------------------------------------------------------
(* final_score                                                             *)

Dot(u, v) == u[1] * v[1] + u[2] * v[2]

\* the Euclidean norm of a vector whose norm is a whole number
Norm(v) == CHOOSE n \in 0..Dot(v, v) : n * n = Dot(v, v)

\* sklearn's cosine_similarity: a zero vector is left as it is, giving 0
cosine_similarity(u, v) ==
  IF Norm(u) = 0 \/ Norm(v) = 0 THEN FInt(0)
  ELSE Frac(Dot(u, v), Norm(u) * Norm(v))

\* row.get(a, 0)
RowGet(row, a) == IF a \in DOMAIN row.flags THEN row.flags[a] ELSE 0

RECURSIVE SumFlags(_, _)
SumFlags(row, names) ==
  IF names = {} THEN 0
  ELSE LET a == CHOOSE a \in names : TRUE
       IN  RowGet(row, a) + SumFlags(row, names \ {a})

\* lines 114-118
AmenitySim(row, requested_amenities) ==
  IF requested_amenities # {}
  THEN Frac(SumFlags(row, requested_amenities), Cardinality(requested_amenities))
  ELSE FInt(0)

\* line 122: the penalty is computed by a division
PenaltyApplies(row, max_price) ==
  ~max_price.none /\ FLt(max_price.val, row.price)

\* lines 121-123.  A division by zero leaves denominator 0: an infinity.
PricePenaltyUnguarded(row, max_price) ==
  IF ~max_price.none THEN FDiv(FSub(row.price, max_price.val), max_price.val)
  ELSE FInt(0)
PricePenalty(row, max_price) ==
  IF PenaltyApplies(row, max_price)
  THEN FDiv(FSub(row.price, max_price.val), max_price.val)
  ELSE FInt(0)

\* line 123 divides by zero
DividesByZero(row, max_price) ==
  PenaltyApplies(row, max_price) /\ max_price.val.n = 0

final_score(row, query_embedding, requested_amenities, max_price) ==
  FSub(FAdd(cosine_similarity(row.description_embedding, query_embedding),
            AmenitySim(row, requested_amenities)),
       PricePenalty(row, max_price))

----------------------------------------------------------------------------
(* search_listings                                                         *)

HeadLimit == 10

\* lines 134-136
RequestedAmenities(found, vocabulary) == { a \in found : a \in Range(vocabulary) }

\* the truth value Python gives an optional string
Truthy(location) == ~location.none /\ location.val # << >>

\* lines 140-141
CleanLocation(location) ==
  IF Truthy(location)
  THEN Some(StripBy(StripBy(Strip(location.val), IsDoubleQuote), IsSingleQuote))
  ELSE location

\* lines 146-148
LocationFilterDiscarded(ref, location) == ref
LocationFilter(ref, location) ==
  IF Truthy(location)
  THEN Where(ref, LAMBDA r : Lower(r.city) = Lower(location.val))
  ELSE ref

\* lines 151-153
PriceFilterSkipped(ref, max_price) == ref
PriceFilter(ref, max_price) ==
  IF ~max_price.none
  THEN Where(ref, LAMBDA r : FLe(r.price, max_price.val))
  ELSE ref

\* lines 143-153: the frame that is scored, and the object it is
FilteredRef(table, location, max_price) ==
  PriceFilter(LocationFilter(Copy(Ref("caller", table)), location), max_price)

\* lines 159-162
ScoreColumn(frame, query_embedding, requested_amenities, max_price) ==
  [ i \in DOMAIN frame.rows |->
      final_score(frame.rows[i], query_embedding, requested_amenities, max_price) ]

\* the orders of the rows picked by I in which no row precedes one of a
\* greater score
RECURSIVE DescendingOrders(_, _)
DescendingOrders(rows, I) ==
  IF I = {} THEN { << >> }
  ELSE UNION { { << rows[i] >> \o rest : rest \in DescendingOrders(rows, I \ {i}) } :
               i \in { i \in I : \A j \in I : FLe(rows[j].score, rows[i].score) } }

RECURSIVE AscendingOrders(_, _)
AscendingOrders(rows, I) ==
  IF I = {} THEN { << >> }
  ELSE UNION { { << rows[i] >> \o rest : rest \in AscendingOrders(rows, I \ {i}) } :
               i \in { i \in I : \A j \in I : FLe(rows[i].score, rows[j].score) } }

\* df.sort_values("score", ascending=False) with the default kind='quicksort',
\* which is not a stable sort: rows of equal score may come out in any order
SortValuesAscending(frame) ==
  { [frame EXCEPT !.rows = o] : o \in AscendingOrders(frame.rows, DOMAIN frame.rows) }
SortValues(frame) ==
  { [frame EXCEPT !.rows = o] : o \in DescendingOrders(frame.rows, DOMAIN frame.rows) }

\* line 165: the frames search_listings can return for a scored frame
Returned(frame) == { HeadRows(sorted, HeadLimit) : sorted \in SortValues(frame) }

\* the locals of search_listings at line 162
Locals(df, query_embedding, requested_amenities, max_price, location) ==
  [ df |-> df, query_embedding |-> query_embedding,
    requested_amenities |-> requested_amenities,
    max_price |-> max_price, location |-> location ]

NoLocals == Locals(NoFrame, << 0, 0 >>, {}, NoPrice, NoLocation)
NoIntent == [location |-> NoLocation, max_price |-> NoPrice, amenities |-> {}]
NoCall ==
  [ row |-> << >>, query_embedding |-> << 0, 0 >>, requested_amenities |-> {},
    max_price |-> NoPrice, score |-> FInt(0) ]

----------------------------------------------------------------------------
(* Inputs                                                                  *)

\* bounds of the model
MaxRows == 2
MaxExtra == 2
MaxFrags == 3

London == <<"L","o","n","d","o","n">>
Rome == <<"R","o","m","e">>
wifi == <<"w","i","f","i">>
hot_tub == <<"h","o","t"," ","t","u","b">>
kitchen == <<"k","i","t","c","h","e","n">>
balcony == <<"p","r","i","v","a","t","e"," ","p","a","t","i","o"," ","o","r"," ","b","a","l","c","o","n","y">>

Listing(city, price, embedding, w, h, k) ==
  [ city |-> city, price |-> FInt(price), description_embedding |-> embedding,
    flags |-> (wifi :> w) @@ (hot_tub :> h) @@ (kitchen :> k) ]

\* the listings a short table is made of
Listings ==
  << Listing(London, 200, << 3, 4 >>, 1, 0, 1),
     Listing(<<"L","O","N","D","O","N">>, 250, << 4, 3 >>, 1, 1, 0),
     Listing(Rome, 0, << 0, 5 >>, 0, 0, 0),
     Listing(<<"l","o","n","d","o","n">>, 120, << 3, 4 >>, 1, 0, 0) >>

\* description embeddings of the rows of a long table
Directions ==
  << << 3, 4 >>, << 4, 3 >>, << 0, 5 >>, << 5, 0 >>, << -3, 4 >>, << -4, 3 >>,
     << 4, -3 >>, << 3, -4 >>, << -5, 0 >>, << 0, -5 >>, << -4, -3 >>, << -3, -4 >> >>

\* a row gets its index label from its position in the loaded table
Indexed(rows) == [ i \in DOMAIN rows |-> ("idx" :> i) @@ rows[i] ]

\* tables of up to MaxRows different listings, in any order
ShortTables ==
  { Frame(FALSE, Indexed(rows)) :
      rows \in UNION { { f \in [1..n -> Range(Listings)] :
                           \A i, j \in 1..n : i # j => f[i] # f[j] } :
                       n \in 0..MaxRows } }

\* tables with more rows than search_listings returns
LongTables ==
  { Frame(FALSE, Indexed([ i \in 1..n |->
        Listing(London, 100 + i, Directions[((i - 1) % Len(Directions)) + 1],
                i % 2, (i \div 2) % 2, 1) ])) :
      n \in (HeadLimit + 1)..(HeadLimit + MaxExtra) }

Tables == ShortTables \cup LongTables

\* what embed_query may return for a query
QueryEmbeddings == { << 3, 4 >>, << 4, 3 >> }

\* the texts submitted to the dashboard
SearchQueries ==
  { <<"f","l","a","t"," ","i","n"," ","L","o","n","d","o","n"," ","u","n","d","e","r"," ","2","0","0"," ","w","i","t","h"," ","w","i","f","i">>,
    <<"i","n"," ","R","o","m","e"," ","u","n","d","e","r"," ","2","0","0">>,
    <<"u","n","d","e","r"," ","0">>,
    <<"c","o","z","y"," ","s","t","u","d","i","o"," ","w","i","t","h"," ","a"," ","b","a","l","c","o","n","y">>,
    <<"j","a","c","u","z","z","i"," ","a","n","d"," ","w","i","f","i">>,
    <<"a","t"," ","L","O","N","D","O","N",","," ","m","a","x"," ","£","2","0","0">>,
    <<" "," "," ">>,
    <<"i","n"," ","P","a","r","i","s">>,
    <<"r","o","o","m","s"," ","i","n"," "," ">> }

\* the pieces the queries given to extract_intent are put together from
Fragments ==
  << <<"i","n"," ","L","o","n","d","o","n">>,
     <<"a","t"," ","L","o","n","d","o","n">>,
     <<" ">>,
     <<",">>,
     <<"c","a","b">>,
     <<"d","e","r","r","y">>,
     <<"i","n"," ","R","o","m","e"," ">>,
     <<"W","i","F","i"," ">>,
     <<"j","a","c","u","z","z","i">>,
     <<"s","p","a","c","i","o","u","s">>,
     <<" ","u","n","d","e","r"," ","2","0","0">> >>

RECURSIVE Concat(_)
Concat(parts) == IF parts = << >> THEN << >> ELSE Head(parts) \o Concat(Tail(parts))

Queries ==
  { Concat([ i \in DOMAIN f |-> Fragments[f[i]] ]) :
      f \in UNION { [1..n -> DOMAIN Fragments] : n \in 0..MaxFrags } }

\* extract_intent is a function of the text alone: its value on each of the
\* texts the dashboard is given
IntentOfSearchQuery == [ q \in SearchQueries |-> extract_intent(q) ]

----------------------------------------------------------------------------
(* The dashboard (streamlit_app.py)                                        *)

SliderMin == 5
SliderMax == 20
SliderDefault == 10

\* line 99: the rank column
Ranked(frame) ==
  [frame EXCEPT !.rows = [ i \in DOMAIN frame.rows |-> ("rank" :> i) @@ frame.rows[i] ]]

\* line 90
Truncated(frame, n) == HeadRows(frame, n)

\* lines 90-99
TopResults(frame, n) == Ranked(Truncated(frame, n))

Init ==
  /\ all_listings \in Tables
  /\ user_query = << >>
  /\ max_results = SliderDefault
  /\ intent = NoIntent
  /\ scored = NoLocals
  /\ results = NoFrame
  /\ top_results = NoFrame
  /\ outcome = "idle"
  /\ score_call = NoCall

\* a run of the script that does not search leaves nothing on the page
NothingShown ==
  /\ intent' = NoIntent
  /\ scored' = NoLocals
  /\ results' = NoFrame
  /\ top_results' = NoFrame
  /\ outcome' = "idle"

\* lines 51-53: the user moves the slider; the script runs again, the button
\* is not pressed
MoveSlider ==
  \E n \in SliderMin..SliderMax :
    /\ n # max_results
    /\ max_results' = n
    /\ NothingShown
    /\ UNCHANGED << all_listings, user_query, score_call >>

\* lines 59-62: the user changes the text; the script runs again, the button
\* is not pressed
TypeQuery ==
  \E q \in SearchQueries :
    /\ q # user_query
    /\ user_query' = q
    /\ NothingShown
    /\ UNCHANGED << all_listings, max_results, score_call >>

\* search_listings raised: the run ends with nothing to show
Raised(error, it, locals) ==
  /\ intent' = it
  /\ scored' = locals
  /\ results' = NoFrame
  /\ top_results' = NoFrame
  /\ outcome' = error

\* search_listings returned one of the frames of Returned(df)
Shown(it, locals, table) ==
  \E r \in Returned(locals.df) :
    /\ intent' = it
    /\ scored' = locals
    /\ results' = r
    /\ top_results' = TopResults(r, max_results)
    /\ outcome' = "returned"
    /\ all_listings' = table

\* search_listings (search_utils.py lines 129-165) called on the loaded table
\* as line 89 does.  Each local is bound once, in the order the code assigns it.
SearchListings(q, query_embedding) ==
  \E it \in { IntentOfSearchQuery[q] } :
  \E requested_amenities \in { RequestedAmenities(it.amenities, key_amenities) } :
  \E location \in { CleanLocation(it.location) } :
  \E df \in { FilteredRef(all_listings, location, it.max_price) } :
  \E annotated \in { WithScores(df.frame,
         ScoreColumn(df.frame, query_embedding, requested_amenities, it.max_price)) } :
    LET max_price == it.max_price
        \* the caller's table after line 159, should df be the caller's object
        table == IF df.obj = "caller" THEN annotated ELSE all_listings
        locals == Locals(annotated, query_embedding, requested_amenities,
                         max_price, location)
        unscored == Locals(df.frame, query_embedding, requested_amenities,
                           max_price, location)
    IN  IF df.frame.rows = << >>
        THEN \* apply(axis=1) on an empty frame gives a frame, not a column;
             \* pandas either refuses the assignment or makes an empty column
             \/ Raised("ValueError", it, unscored) /\ UNCHANGED all_listings
             \/ Shown(it, locals, table)
        ELSE IF \E i \in DOMAIN df.frame.rows :
                   DividesByZero(df.frame.rows[i], max_price)
        THEN \* Python floats raise, numpy floats give an infinity
             \/ Raised("ZeroDivisionError", it, unscored) /\ UNCHANGED all_listings
             \/ Shown(it, locals, table)
        ELSE Shown(it, locals, table)

\* lines 67-99: the button is pressed
SearchButton ==
  /\ UNCHANGED << user_query, max_results, score_call >>
  /\ IF Strip(user_query) = << >>
     THEN NothingShown /\ UNCHANGED all_listings
     ELSE \E query_embedding \in QueryEmbeddings :
            SearchListings(user_query, query_embedding)

Next == MoveSlider \/ TypeQuery \/ SearchButton

Spec == Init /\ [][Next]_vars

----------------------------------------------------------------------------
(* extract_intent called on its own                                        *)

InitIntent ==
  /\ all_listings = NoFrame
  /\ user_query \in Queries
  /\ max_results = SliderDefault
  /\ intent = NoIntent
  /\ scored = NoLocals
  /\ results = NoFrame
  /\ top_results = NoFrame
  /\ outcome = "idle"
  /\ score_call = NoCall

ExtractIntentCall ==
  /\ intent' = extract_intent(user_query)
  /\ outcome' = "returned"
  /\ UNCHANGED << all_listings, user_query, max_results, scored, results,
                  top_results, score_call >>

NextIntent == ExtractIntentCall

SpecIntent == InitIntent /\ [][NextIntent]_vars

----------------------------------------------------------------------------
(* final_score called on its own                                           *)

\* the rows, amenity lists and price ceilings final_score is called with
ScoreRows ==
  Range(Indexed(Listings))
    \cup { ("idx" :> 0) @@ Listing(Rome, 300, << 0, 0 >>, 1, 1, 1) }

ScoreAmenities == SUBSET { wifi, hot_tub, balcony }

ScorePrices ==
  { NoPrice, Some(FInt(0)), Some(FInt(100)), Some(FInt(200)), Some(Frac(1495, 10)) }

Call(row, query_embedding, requested_amenities, max_price, score) ==
  [ row |-> row, query_embedding |-> query_embedding,
    requested_amenities |-> requested_amenities, max_price |-> max_price,
    score |-> score ]

InitScore ==
  /\ all_listings = NoFrame
  /\ user_query = << >>
  /\ max_results = SliderDefault
  /\ intent = NoIntent
  /\ scored = NoLocals
  /\ results = NoFrame
  /\ top_results = NoFrame
  /\ outcome = "idle"
  /\ score_call \in { Call(row, e, A, p, FInt(0)) :
                        row \in ScoreRows, e \in QueryEmbeddings \cup { << 0, 5 >> },
                        A \in ScoreAmenities, p \in ScorePrices }

FinalScoreCall ==
  LET c == score_call
      score == final_score(c.row, c.query_embedding, c.requested_amenities, c.max_price)
  IN  /\ UNCHANGED << all_listings, user_query, max_results, intent, scored,
                      results, top_results >>
      /\ IF DividesByZero(c.row, c.max_price)
         THEN \* Python floats raise, numpy floats give an infinity
              \/ outcome' = "ZeroDivisionError" /\ UNCHANGED score_call
              \/ outcome' = "returned" /\ score_call' = [c EXCEPT !.score = score]
         ELSE outcome' = "returned" /\ score_call' = [c EXCEPT !.score = score]

NextScore == FinalScoreCall

SpecScore == InitScore /\ [][NextScore]_vars

----------------------------------------------------------------------------
(* Properties                                                              *)

returned == outcome = "returned"

\* the index labels of the rows of a frame, and where a label stands in it
Labels(frame) == { frame.rows[k].idx : k \in DOMAIN frame.rows }
Position(frame, idx) == CHOOSE k \in DOMAIN frame.rows : frame.rows[k].idx = idx

\* location.strip().strip('"').strip("'") as the claims word it
Unquoted(text) == StripBy(StripBy(Strip(text), IsDoubleQuote), IsSingleQuote)

PriceWithin(row) ==
  ~intent.max_price.none => FLe(row.price, intent.max_price.val)

CityMatches(row) ==
  Lower(row.city) = Lower(Unquoted(intent.location.val))

\* C1 as stated: every row search_listings returns has price <= max_price if
\* a max_price was extracted, and a city equal to the location, letter case
\* aside, if a location was extracted.
C1_FiltersAsStated ==
  returned =>
    \A k \in DOMAIN results.rows :
      /\ PriceWithin(results.rows[k])
      /\ ~intent.location.none => CityMatches(results.rows[k])

\* C1 amended: every row search_listings returns has price <= max_price if a
\* max_price was extracted, and a city equal to the location, letter case
\* aside, if a location other than the empty string was extracted.
C1_Filters ==
  returned =>
    \A k \in DOMAIN results.rows :
      /\ PriceWithin(results.rows[k])
      /\ (~intent.location.none /\ intent.location.val # << >>)
           => CityMatches(results.rows[k])

\* both filters applied: a row of the right city was dropped for its price,
\* and a row was kept whose city differs from the location in letter case
C1_Witness ==
  /\ returned
  /\ ~intent.max_price.none
  /\ ~intent.location.none /\ intent.location.val # << >>
  /\ \E k \in DOMAIN results.rows : results.rows[k].city # intent.location.val
  /\ \E k \in DOMAIN all_listings.rows :
       /\ Lower(all_listings.rows[k].city) = Lower(intent.location.val)
       /\ FLt(intent.max_price.val, all_listings.rows[k].price)

\* C2: of two rows scored in one call, the one of greater score stands before
\* the other in the returned frame, and is returned if the other is.
C2_ScoreOrdering ==
  returned =>
    \A a, b \in DOMAIN scored.df.rows :
      LET L1 == scored.df.rows[a]
          L2 == scored.df.rows[b]
      IN  (FLt(L2.score, L1.score) /\ L2.idx \in Labels(results))
            => /\ L1.idx \in Labels(results)
               /\ Position(results, L1.idx) < Position(results, L2.idx)

\* more rows were scored than are returned, and a returned row stands before
\* a row that preceded it in the table
C2_Witness ==
  /\ returned
  /\ Len(scored.df.rows) > Len(results.rows)
  /\ \E i, j \in DOMAIN results.rows :
       /\ i < j
       /\ results.rows[i].idx > results.rows[j].idx
       /\ FLt(results.rows[j].score, results.rows[i].score)

\* the two terms of the score as C3 words them
ClaimedAmenityRatio(row, A) ==
  IF A = {} THEN FInt(0)
  ELSE Frac(Cardinality({ a \in A : RowGet(row, a) = 1 }), Cardinality(A))

ClaimedPricePenalty(row, p) ==
  IF p.none THEN FInt(0)
  ELSE LET excess == FDiv(FSub(row.price, p.val), p.val)
       IN  IF FLt(excess, FInt(0)) THEN FInt(0) ELSE excess

\* C3: for max_price absent or > 0, final_score returns semantic +
\* amenity_ratio - price_penalty, amenity_ratio being the share of the
\* requested amenities the row has (0 for none requested, with no fault) and
\* price_penalty being max(0, (price - max_price) / max_price) (0 for none).
C3_ScoreFormula ==
  LET c == score_call
  IN  (outcome # "idle" /\ (c.max_price.none \/ c.max_price.val.n > 0)) =>
        /\ returned
        /\ FEq(c.score,
               FSub(FAdd(cosine_similarity(c.row.description_embedding, c.query_embedding),
                         ClaimedAmenityRatio(c.row, c.requested_amenities)),
                    ClaimedPricePenalty(c.row, c.max_price)))

\* a call with amenities requested, some of them present, and a price over
\* the ceiling
C3_Witness ==
  LET c == score_call
  IN  /\ returned
      /\ c.requested_amenities # {}
      /\ ClaimedAmenityRatio(c.row, c.requested_amenities).n > 0
      /\ ~c.max_price.none /\ c.max_price.val.n > 0
      /\ FLt(c.max_price.val, c.row.price)

Least(a, b) == IF a < b THEN a ELSE b

\* C4: search_listings returns every row that passes the filters, and the
\* caller asking for N rows gets min(N, number of filtered rows) of them.
C4_AllFilteredRowsReturned ==
  returned =>
    /\ Len(results.rows) = Len(scored.df.rows)
    /\ Len(top_results.rows) = Least(max_results, Len(scored.df.rows))

\* C5: a max_price of 0 ends the call with InvalidFilter.
C5_ZeroMaxPriceInvalidFilter ==
  (outcome # "idle" /\ ~intent.max_price.none /\ intent.max_price.val.n = 0)
    => outcome = "InvalidFilter"

\* C6: no step changes the caller's table.
C6_TableUnchanged == [][all_listings' = all_listings]_vars

\* a search that dropped rows and returned scored rows, the table having no
\* score column
C6_Witness ==
  /\ returned
  /\ results.score_col
  /\ results.rows # << >>
  /\ Len(scored.df.rows) < Len(all_listings.rows)
  /\ ~all_listings.score_col

\* C7: returned rows of equal score keep the order they have in the table.
C7_StableSort ==
  returned =>
    \A i, j \in DOMAIN results.rows :
      (i < j /\ FEq(results.rows[i].score, results.rows[j].score))
        => results.rows[i].idx < results.rows[j].idx

\* a occurs in the text, letter case aside
Occurs(a, text) == Contains(Lower(text), Lower(a))

jacuzzi == <<"j","a","c","u","z","z","i">>

\* the synonyms AMENITY_SYNONYMS lists for a
ListedSynonyms(a) ==
  IF a \in DOMAIN AMENITY_SYNONYMS THEN Range(AMENITY_SYNONYMS[a]) ELSE {}

\* C8: the amenities extracted are the canonical names that occur in the
\* query, or one of whose synonyms does, letter case aside; so they are
\* canonical names, and 'jacuzzi' gives 'hot tub'.
C8_Amenities ==
  returned =>
    /\ intent.amenities =
         { a \in Range(key_amenities) :
             \/ Occurs(a, user_query)
             \/ \E syn \in ListedSynonyms(a) : Occurs(syn, user_query) }
    /\ intent.amenities \subseteq Range(key_amenities)
    /\ Occurs(jacuzzi, user_query) => hot_tub \in intent.amenities

\* one query gives two amenities, 'hot tub' by its synonym 'jacuzzi' alone
\* and 'wifi' by its name in another letter case
C8_Witness ==
  /\ returned
  /\ Occurs(jacuzzi, user_query) /\ ~Occurs(hot_tub, user_query)
  /\ ~Contains(user_query, wifi)
  /\ { hot_tub, wifi } \subseteq intent.amenities

in_London == <<"i","n"," ","L","o","n","d","o","n">>
at_London == <<"a","t"," ","L","o","n","d","o","n">>

\* 'in London' or 'at London' stands at position i
LondonPhraseAt(text, i) ==
  /\ i + 8 <= Len(text)
  /\ SubSeq(text, i, i + 8) \in { in_London, at_London }

\* C9 as stated: a query that contains 'in London' or 'at London' gives
\* location 'London', whatever precedes or follows.
C9_LondonAsStated ==
  (returned /\ \E i \in DOMAIN user_query : LondonPhraseAt(user_query, i))
    => intent.location = Some(London)

\* the word 'in' or 'at', in any letter case, followed by whitespace, at j
InOrAtWordAt(text, j) ==
  /\ j + 2 <= Len(text)
  /\ Lower(SubSeq(text, j, j + 1)) \in { <<"i","n">>, <<"a","t">> }
  /\ (j = 1 \/ ~IsWordChar(text[j - 1]))
  /\ IsSpace(text[j + 2])

\* the phrase at i begins a word, London ends at whitespace, a comma or the
\* end of the text, and no word 'in' or 'at' followed by whitespace is
\* earlier in the text
LondonPhraseFirst(text, i) ==
  /\ LondonPhraseAt(text, i)
  /\ (i = 1 \/ ~IsWordChar(text[i - 1]))
  /\ (i + 9 > Len(text) \/ IsSpace(text[i + 9]) \/ text[i + 9] = ",")
  /\ \A j \in 1..(i - 1) : ~InOrAtWordAt(text, j)

\* C9 amended: a query gives location 'London' if it contains 'in London' or
\* 'at London' with the 'in' or 'at' beginning a word, 'London' followed by
\* whitespace, a comma or the end of the query, and no earlier word 'in' or
\* 'at' (in any letter case) followed by whitespace.
C9_London ==
  (returned /\ \E i \in DOMAIN user_query : LondonPhraseFirst(user_query, i))
    => intent.location = Some(London)

\* the phrase is found with text before it and after it
C9_Witness ==
  /\ returned
  /\ \E i \in DOMAIN user_query :
       /\ LondonPhraseFirst(user_query, i)
       /\ i > 2
       /\ i + 10 <= Len(user_query)
  /\ intent.location = Some(London)

\* C10: in search_listings every scored row has price <= max_price when a
\* max_price was extracted, so its score is semantic similarity +
\* amenity_ratio: the price penalty takes nothing off.
C10_NoPenaltyInSearch ==
  returned =>
    \A k \in DOMAIN scored.df.rows :
      LET row == scored.df.rows[k]
      IN  /\ ~scored.max_price.none => FLe(row.price, scored.max_price.val)
          /\ FEq(row.score,
                 FAdd(cosine_similarity(row.description_embedding, scored.query_embedding),
                      ClaimedAmenityRatio(row, scored.requested_amenities)))

\* a max_price was extracted, the filter dropped a row over it, and a row at
\* the ceiling itself was scored
C10_Witness ==
  /\ returned
  /\ ~scored.max_price.none
  /\ \E k \in DOMAIN scored.df.rows :
       FEq(scored.df.rows[k].price, scored.max_price.val)
  /\ \E k \in DOMAIN all_listings.rows :
       FLt(scored.max_price.val, all_listings.rows[k].price)

====
